---------------------------- MODULE Spec2Model ----------------------------
(***************************************************************************)
(* Pig-Pen tournament harness: the sandbox host (game.rs, WasmStrategy and *)
(* StoreData), the rules engine (simulate_turn, simulate_game), the        *)
(* tournament runner (run_simulation_sync, run_simulation) and the         *)
(* simulation manager (SimulationManager), with the persistence schema of  *)
(* db.rs.                                                                  *)
(*                                                                         *)
(* Several specifications share the module.                                *)
(*   Spec      one tournament worker: run_simulation from the status       *)
(*             update to the completion signal, with every game played     *)
(*             roll by roll.                                               *)
(*   SpecGame  one game of three seats, one of them breached before        *)
(*             (SpecGameAggregated adds the aggregation of its results).   *)
(*   SpecHistory  the tournament with the turn history of its games kept.  *)
(*   SpecHost  the strategy instances of a tournament and their limiters,  *)
(*             request by request.                                         *)
(*   SpecMgr   the SimulationManager with its queue, its polls and its     *)
(*             workers, each worker running run_simulation with the        *)
(*             runner's result as an input (FairSpecMgr adds the fairness  *)
(*             of the periodic poll and of the spawned tasks).             *)
(*   SpecApi   the bot registry under concurrent uploads.                  *)
(***************************************************************************)
EXTENDS Integers, Sequences, FiniteSets, TLC

(***************************************************************************)
(* Bounds of the model.                                                    *)
(*   Threshold stands for the program's threshold of 100 points            *)
(*   (game.rs:262 and game.rs:270): the rules compare the score with it    *)
(*   and never use its value otherwise, and the model plays the game to a  *)
(*   smaller threshold so that whole games and tournaments are explored.   *)
(*   MaxScore caps the scores of an endgame in which the lead keeps        *)
(*   changing hands (the program's scores are unbounded there).            *)
(*   MaxRolls caps the rolls of a game whose turn history is kept.         *)
(***************************************************************************)
Threshold == 9
MaxScore == 12
MaxSeats == 2
MaxGames == 2
MaxSims == 4
GameSeats == 3
MaxRolls == 2

(***************************************************************************)
(* Program constants.                                                      *)
(***************************************************************************)
DieFaces == 6
MemoryLimitMb == 200

Seats(n) == 0 .. (n - 1)

Max(a, b) == IF a >= b THEN a ELSE b

None == {}
Some(x) == {x}

\* The permutations of 0..n-1, as functions from positions to seats.
Permutations0(n) ==
    { f \in [Seats(n) -> Seats(n)] : \A s \in Seats(n) : \E p \in Seats(n) : f[p] = s }

(***************************************************************************)
(* Sandbox host: StoreData and its ResourceLimiter.                        *)
(***************************************************************************)

\* StoreData as WasmStrategy::new builds it: 100MB limit per strategy.
NewStoreData ==
    [ current_memory_bytes |-> 0,
      peak_memory_bytes    |-> 0,
      memory_limit         |-> Some(100 * 1024 * 1024),
      memory_limit_hit     |-> FALSE ]

set_memory_limit(s, limit_bytes) == [s EXCEPT !.memory_limit = Some(limit_bytes)]

\* A limiter whose peak follows the size last asked for.
memory_growing_peak_follows(s, desired, maximum) ==
    LET s1 == [s EXCEPT !.current_memory_bytes = desired,
                        !.peak_memory_bytes = desired]
    IN  IF \E limit \in s.memory_limit : desired > limit
        THEN [store |-> [s1 EXCEPT !.memory_limit_hit = TRUE], ok |-> FALSE]
        ELSE IF \E max \in maximum : desired > max
             THEN [store |-> s1, ok |-> FALSE]
             ELSE [store |-> s1, ok |-> TRUE]

\* ResourceLimiter::memory_growing: the store afterwards and the answer given
\* to the engine (TRUE: the growth is allowed).
memory_growing(s, desired, maximum) ==
    LET s1 == [s EXCEPT !.current_memory_bytes = desired,
                        !.peak_memory_bytes =
                            IF desired > s.peak_memory_bytes
                            THEN desired ELSE s.peak_memory_bytes]
    IN  IF \E limit \in s.memory_limit : desired > limit
        THEN [store |-> [s1 EXCEPT !.memory_limit_hit = TRUE], ok |-> FALSE]
        ELSE IF \E max \in maximum : desired > max
             THEN [store |-> s1, ok |-> FALSE]
             ELSE [store |-> s1, ok |-> TRUE]

\* The grow requests of one call, in order: the store afterwards and whether
\* the limiter denied any of them.
RECURSIVE ApplyGrows(_, _)
ApplyGrows(s, grows) ==
    IF grows = << >>
    THEN [store |-> s, denied |-> FALSE]
    ELSE LET g == memory_growing(s, Head(grows).desired, Head(grows).maximum)
             r == ApplyGrows(g.store, Tail(grows))
         IN  [store |-> r.store, denied |-> (~g.ok) \/ r.denied]

(***************************************************************************)
(* Error messages are sequences of tokens; to_lowercase and contains work  *)
(* on them token by token.                                                 *)
(***************************************************************************)
ToLowerToken(t) ==
    CASE t = "Memory"   -> "memory"
      [] t = "Resource" -> "resource"
      [] t = "Out"      -> "out"
      [] t = "Limit"    -> "limit"
      [] OTHER          -> t

to_lowercase(msg) == [i \in DOMAIN msg |-> ToLowerToken(msg[i])]

contains(msg, pat) ==
    \E i \in 1 .. (Len(msg) - Len(pat) + 1) : SubSeq(msg, i, i + Len(pat) - 1) = pat

\* game.rs:159-163: does the error look like a resource/memory error.
LooksLikeResourceError(e) ==
    LET error_msg == to_lowercase(e)
    IN  \/ contains(error_msg, <<"memory">>)
        \/ contains(error_msg, <<"resource">>)
        \/ contains(error_msg, <<"out", "of">>)
        \/ contains(error_msg, <<"limit">>)

\* The errors a component call can end with.
ErrorMessages ==
    { <<"wasm", "trap", "unreachable">>,
      <<"Out", "of", "bounds", "Memory", "access">>,
      <<"Resource", "Limit", "exceeded">> }

\* What one call into the component does: the grow requests it makes and how
\* it ends (ok: it returns decision; otherwise it fails with error msg).
GrowRequests ==
    { [desired |-> d, maximum |-> m] :
        d \in {65536, MemoryLimitMb * 1024 * 1024 + 65536},
        m \in {None, Some(0)} }

CallReturns ==
    { [ok |-> TRUE, decision |-> d, msg |-> << >>] : d \in BOOLEAN }
    \cup { [ok |-> FALSE, decision |-> FALSE, msg |-> e] : e \in ErrorMessages }

Calls ==
    { [grows |-> g, ret |-> r] :
        g \in {<< >>} \cup { <<q>> : q \in GrowRequests }, r \in CallReturns }

\* WasmStrategy::should_roll: the store afterwards and the result, "roll"
\* (Ok(true)), "hold" (Ok(false)) or "err"; called is FALSE when the
\* component was not invoked.
should_roll(s, call) ==
    IF s.memory_limit_hit
    THEN [store |-> s, res |-> "hold", called |-> FALSE, denied |-> FALSE,
          classified |-> FALSE]
    ELSE LET g == ApplyGrows(s, call.grows)
         IN  IF call.ret.ok
             THEN [store |-> g.store,
                   res |-> IF call.ret.decision THEN "roll" ELSE "hold",
                   called |-> TRUE, denied |-> g.denied, classified |-> FALSE]
             ELSE IF g.store.memory_limit_hit
                  THEN [store |-> g.store, res |-> "hold", called |-> TRUE,
                        denied |-> g.denied, classified |-> FALSE]
                  ELSE IF LooksLikeResourceError(call.ret.msg)
                       THEN [store |-> [g.store EXCEPT !.memory_limit_hit = TRUE],
                             res |-> "hold", called |-> TRUE,
                             denied |-> g.denied, classified |-> TRUE]
                       ELSE [store |-> g.store, res |-> "err", called |-> TRUE,
                             denied |-> g.denied, classified |-> FALSE]

is_memory_limit_exceeded(s) == s.memory_limit_hit

peak_memory_bytes(s) == s.peak_memory_bytes


(***************************************************************************)
(* Persistence: the tables db.rs creates and the statements run against    *)
(* them.  A statement that names a column its table does not have fails.   *)
(***************************************************************************)
TableColumns ==
    [ simulations |->
        {"id", "status", "num_games", "games_completed", "created_at",
         "started_at", "completed_at", "error_message"},
      simulation_participants |->
        {"simulation_id", "bot_id", "player_index", "games_won", "total_money"} ]

SqlExecutes(stmt) == stmt.columns \subseteq TableColumns[stmt.table]

\* simulation.rs:98-103
UpdateRunning ==
    [table |-> "simulations", columns |-> {"status", "started_at", "id"}]
\* simulation.rs:144-157
UpdateParticipant ==
    [table |-> "simulation_participants",
     columns |-> {"games_won", "total_money", "peak_memory_bytes", "disqualified",
                  "simulation_id", "bot_id", "player_index"}]
\* simulation.rs:161-168
UpdateCompleted ==
    [table |-> "simulations", columns |-> {"status", "completed_at", "id"}]
\* simulation.rs:176-184
UpdateFailed ==
    [table |-> "simulations",
     columns |-> {"status", "error_message", "completed_at", "id"}]
\* simulation.rs:252-256
UpdateProgress ==
    [table |-> "simulations", columns |-> {"games_completed", "id"}]

\* StatusAfterRun without the match on the runner's result: completed is
\* written whatever was returned.
StatusIgnoringError(status, result) ==
    IF SqlExecutes(UpdateCompleted) THEN "completed" ELSE status

\* run_simulation from the match on the runner's result (simulation.rs:117-188):
\* the status it leaves in the simulations row, given the status before.
\* result.ok: the runner returned aggregates; otherwise result.error is its error.
StatusAfterRun(status, result) ==
    IF result.ok
    THEN IF SqlExecutes(UpdateParticipant) /\ SqlExecutes(UpdateCompleted)
         THEN "completed" ELSE status
    ELSE IF SqlExecutes(UpdateFailed) THEN "failed" ELSE status

\* The error_message it leaves.
ErrorAfterRun(error_message, result) ==
    IF ~result.ok /\ SqlExecutes(UpdateFailed) THEN result.error ELSE error_message

\* Whether the participant rows are written (every row, or the first fails).
ParticipantsWritten(result) == result.ok /\ SqlExecutes(UpdateParticipant)

(***************************************************************************)
(* State.                                                                  *)
(***************************************************************************)
VARIABLES
    \* one worker: run_simulation and run_simulation_sync
    pc,                       \* the worker's position
    num_players,              \* task.bots.len()
    num_games,                \* task.num_games
    strategies,               \* seat -> StoreData of its WasmStrategy
    total_stats,              \* seat -> [wins, money]
    total_usage_stats,        \* seat -> peak memory
    permanently_disqualified, \* seat -> BOOLEAN
    game_num,                 \* the for loop's counter
    sim_result,               \* what run_simulation_sync returned
    db,                       \* the tournament's rows: status, error_message,
                              \* games_completed, participants
    \* simulate_game's locals
    players,                  \* seat -> PlayerState: score and banked_score
    turn_start_score,         \* PlayerState.turn_start_score and doubles_count
    doubles_count,            \*   of the seat whose turn it is
    disqualified,             \* seat -> BOOLEAN
    turn_history,             \* sequence of <<seat, <<die1, die2>>>>
    player_order,             \* position -> seat
    current_player_index,
    leader_score,
    leader_index,
    endgame_started,
    players_had_final_turn,   \* seat -> BOOLEAN
    all_banked_scores,        \* the snapshot passed to simulate_turn
    must_roll,                \* simulate_turn's local
    turn_ret,                 \* simulate_turn's return value
    game_ret,                 \* simulate_game's return value
    \* observations
    last_call,                \* the should_roll call just made and its result
                              \* (NoCall once the turn has gone on or ended)
    last_roll,                \* the dice just rolled, <<die1, die2>> (NoRoll
                              \* once the strategy is consulted or the turn
                              \* has returned)
    history_on,               \* whether the model keeps the turn history
    last_grow,                \* the memory_growing request just answered, where
                              \* the limiter is followed request by request
    progress_err,             \* whether a games_completed update has failed
    \* the SimulationManager and its workers
    queue,                    \* the ids of the queued tournaments, front first
    is_running,
    completion_rx,            \* None, or Some(c): the receiver of channel c
    chan,                     \* id -> the completion channel made for its worker:
                              \*   "none", "open", "sent" (the signal is in
                              \*   it), "received"
    worker,                   \* id -> its spawned task: [pc, result]
    sim_status,               \* id -> the status of its simulations row
    start_log,                \* the ids in the order their workers were started
    next_id,                  \* tournaments are numbered as they are submitted
    \* the bot registry and the upload requests
    bots,                     \* the rows of the bots table: [id, wasm_hash]
    files,                    \* the names of the files in bots_dir
    uploads,                  \* request -> [pc, wasm, hash, bot_id]
    responses                 \* the successful upload responses, in the order
                              \* they were returned: [wasm, id]

runVars == <<num_players, num_games, strategies, total_stats, total_usage_stats,
             permanently_disqualified, game_num, sim_result, db>>
gameVars == <<players, turn_start_score, doubles_count, disqualified,
              turn_history, player_order, current_player_index, leader_score, leader_index, endgame_started,
              players_had_final_turn, all_banked_scores, must_roll, turn_ret,
              game_ret>>
obsVars == <<last_call, last_roll, history_on, last_grow, progress_err>>
mgrVars == <<queue, is_running, completion_rx, chan, worker, sim_status,
             start_log, next_id>>
apiVars == <<bots, files, uploads, responses>>
vars == <<pc, runVars, gameVars, obsVars, mgrVars, apiVars>>

\* A GameState built without the rolls made so far.
GameStateWithoutHistory(player_index, ps, banked_scores, history) ==
    [ current_player_index      |-> player_index,
      current_banked_score      |-> ps.banked_score,
      current_total_score       |-> ps.score,
      all_players_banked_scores |-> banked_scores,
      turn_history              |-> << >> ]

\* game.rs:198-205: the GameState built for the strategy.
GameState(player_index, ps, banked_scores, history) ==
    [ current_player_index      |-> player_index,
      current_banked_score      |-> ps.banked_score,
      current_total_score       |-> ps.score,
      all_players_banked_scores |-> banked_scores,
      turn_history              |-> history ]

NoState == GameState(0, [score |-> 0, banked_score |-> 0], << >>, << >>)

NoCall == [called |-> FALSE, denied |-> FALSE, classified |-> FALSE,
           res |-> "none", hit |-> FALSE, state |-> NoState]
NoRoll == << >>
NoGrow == [requested |-> FALSE, seat |-> 0, desired |-> 0, maximum |-> None,
           ok |-> FALSE, hit_before |-> FALSE]
NoTurn == [score |-> 0, memory_exceeded |-> FALSE]
NoGame == [results |-> << >>, usage_stats |-> << >>, disqualified |-> << >>]
NoResult == [ok |-> FALSE, error |-> "", returned |-> FALSE]

\* simulate_game's locals while no game is being played.
GameIdle ==
    /\ players = << >>
    /\ turn_start_score = 0
    /\ doubles_count = 0
    /\ disqualified = << >>
    /\ turn_history = << >>
    /\ player_order = << >>
    /\ current_player_index = 0
    /\ leader_score = 0
    /\ leader_index = 0
    /\ endgame_started = FALSE
    /\ players_had_final_turn = << >>
    /\ all_banked_scores = << >>
    /\ must_roll = TRUE
    /\ turn_ret = NoTurn
    /\ game_ret = NoGame

\* No bot has been uploaded and no upload is under way.
ApiIdle ==
    /\ bots = {}
    /\ files = {}
    /\ uploads = << >>
    /\ responses = << >>

MgrIdle ==
    /\ queue = << >>
    /\ is_running = FALSE
    /\ completion_rx = None
    /\ chan = << >>
    /\ worker = << >>
    /\ sim_status = << >>
    /\ start_log = << >>
    /\ next_id = 1

\* One queued tournament as its worker starts: the API has inserted the
\* simulation row with status pending and a participant row per seat.
Init ==
    /\ pc = "start"
    /\ num_players \in 1 .. MaxSeats
    /\ num_games \in 1 .. MaxGames
    /\ strategies = << >>
    /\ total_stats = << >>
    /\ total_usage_stats = << >>
    /\ permanently_disqualified = << >>
    /\ game_num = 0
    /\ sim_result = NoResult
    /\ db = [status |-> "pending", error_message |-> "", games_completed |-> 0,
             participants |-> [i \in Seats(num_players) |->
                                 [games_won |-> 0, total_money |-> 0]]]
    /\ GameIdle
    /\ last_call = NoCall
    /\ last_roll = NoRoll
    /\ history_on = FALSE
    /\ last_grow = NoGrow
    /\ progress_err = FALSE
    /\ ApiIdle
    /\ MgrIdle

(***************************************************************************)
(* The rules engine: simulate_turn.                                        *)
(***************************************************************************)
\* PlayerState (game.rs:18-24).  simulate_turn overwrites turn_start_score
\* and doubles_count of its seat before it reads them (game.rs:191-192) and
\* nothing else reads them, so the model holds these two fields once, for the
\* seat whose turn it is, as the variables turn_start_score and doubles_count;
\* ps below is a PlayerState with its four fields.
NewPlayerState == [score |-> 0, banked_score |-> 0]

PlayerOf(p, ts, dc) ==
    [score |-> p.score, banked_score |-> p.banked_score,
     turn_start_score |-> ts, doubles_count |-> dc]

\* A history that holds the last roll only.
PushOverLast(h, e) == IF history_on THEN <<e>> ELSE h

\* turn_history.push, when the model keeps the history.
Push(h, e) == IF history_on THEN Append(h, e) ELSE h

\* Snake eyes with the banked score left alone.
SnakeEyesKeepsBank(ps) == [ps EXCEPT !.score = 0, !.doubles_count = 0]

\* game.rs:229-235: snake eyes.
SnakeEyes(ps) == [ps EXCEPT !.score = 0, !.banked_score = 0, !.doubles_count = 0]

\* A seven that leaves the points of the turn in the score.
SevenOutKeepsScore(ps) == [ps EXCEPT !.doubles_count = 0]

\* A seven that costs the whole score.
SevenOutToZero(ps) == [ps EXCEPT !.score = 0, !.doubles_count = 0]

\* game.rs:237-242: the dice sum to 7.
SevenOut(ps) == [ps EXCEPT !.score = ps.turn_start_score, !.doubles_count = 0]

\* The doubles rule counting one double too few.
IsFourthDouble(ps, die1, die2) == die1 = die2 /\ ps.doubles_count + 1 > 3

\* game.rs:244-246: a double that brings doubles_count to three.
IsThirdDouble(ps, die1, die2) == die1 = die2 /\ ps.doubles_count + 1 >= 3

\* game.rs:247-252: three doubles.
ThreeDoubles(ps) == [ps EXCEPT !.score = 0, !.banked_score = 0, !.doubles_count = 0]

\* A threshold that is never hit exactly.
NeverExactly(score) == FALSE

\* game.rs:262: the score is exactly the threshold.
HitsExactly(score) == score = Threshold

\* A turn in which no roll is forced after a double.
MustRollNever(die1, die2) == FALSE

\* game.rs:244-257: must_roll after a roll that did not end the turn on a
\* bust: a double forces the next roll.
MustRollAfter(die1, die2) == die1 = die2

\* game.rs:229-274: one roll of the dice applied to the player state: the
\* state afterwards, must_roll afterwards and whether the turn is over.
ResolveRoll(ps, must, die1, die2) ==
    LET sum == die1 + die2 IN
    IF die1 = 1 /\ die2 = 1
    THEN [player |-> SnakeEyes(ps), must_roll |-> must, over |-> TRUE]
    ELSE IF sum = 7
    THEN [player |-> SevenOut(ps), must_roll |-> must, over |-> TRUE]
    ELSE IF IsThirdDouble(ps, die1, die2)
    THEN [player |-> ThreeDoubles(ps), must_roll |-> must, over |-> TRUE]
    ELSE LET dc == IF die1 = die2 THEN ps.doubles_count + 1 ELSE 0
             must1 == MustRollAfter(die1, die2)
             score1 == ps.score + sum
         IN  IF HitsExactly(score1)
             THEN [player |-> [ps EXCEPT !.score = 0, !.banked_score = 0,
                                         !.doubles_count = 0],
                   must_roll |-> must1, over |-> TRUE]
             ELSE IF score1 > Threshold
             THEN [player |-> [ps EXCEPT !.score = score1, !.banked_score = score1,
                                         !.doubles_count = dc],
                   must_roll |-> must1, over |-> TRUE]
             ELSE [player |-> [ps EXCEPT !.score = score1, !.doubles_count = dc],
                   must_roll |-> must1, over |-> FALSE]

CurrentPlayer == player_order[current_player_index]

\* game.rs:207-220: the strategy is consulted (must_roll is false).
Decide ==
    /\ pc = "decide"
    /\ \E call \in Calls :
        LET cp == CurrentPlayer
            r == should_roll(strategies[cp], call)
        IN  /\ strategies' = [strategies EXCEPT ![cp] = r.store]
            /\ last_call' = [called |-> r.called, denied |-> r.denied,
                             classified |-> r.classified, res |-> r.res,
                             hit |-> r.store.memory_limit_hit,
                             state |-> GameState(cp, players[cp], all_banked_scores,
                                                 turn_history)]
            /\ IF r.res = "err"
               THEN \* the error propagates through simulate_turn, simulate_game
                    \* and run_simulation_sync (simulation.rs:228)
                    /\ sim_result' = [ok |-> FALSE, returned |-> TRUE,
                                      error |-> "Failed to call should_roll function"]
                    /\ pc' = "publish"
                    /\ UNCHANGED <<players, must_roll, turn_ret>>
               ELSE IF is_memory_limit_exceeded(r.store)
               THEN /\ turn_ret' = [score |-> players[cp].score,
                                    memory_exceeded |-> TRUE]
                    /\ must_roll' = TRUE
                    /\ pc' = "turn_done"
                    /\ UNCHANGED <<players, sim_result>>
               ELSE IF r.res = "hold"
               THEN /\ players' = [players EXCEPT
                                     ![cp].banked_score = players[cp].score]
                    /\ turn_ret' = [score |-> players[cp].score,
                                    memory_exceeded |-> FALSE]
                    /\ must_roll' = TRUE
                    /\ pc' = "turn_done"
                    /\ UNCHANGED sim_result
               ELSE /\ pc' = "roll"
                    /\ UNCHANGED <<players, must_roll, turn_ret, sim_result>>
    /\ UNCHANGED <<num_players, num_games, total_stats, total_usage_stats,
                   permanently_disqualified, game_num, db>>
    /\ UNCHANGED <<turn_start_score, doubles_count, disqualified, turn_history,
                   player_order, current_player_index, leader_score, leader_index,
                   endgame_started, players_had_final_turn, all_banked_scores,
                   game_ret>>
    /\ last_roll' = NoRoll
    /\ UNCHANGED <<history_on, last_grow, progress_err, mgrVars, apiVars>>

\* game.rs:222-277: the dice are rolled.
Roll ==
    /\ pc = "roll"
    /\ \E die1 \in 1 .. DieFaces, die2 \in 1 .. DieFaces :
        LET cp == CurrentPlayer
            r == ResolveRoll(PlayerOf(players[cp], turn_start_score, doubles_count),
                             must_roll, die1, die2)
        IN  /\ r.player.score <= MaxScore
            /\ Len(turn_history) < MaxRolls
            /\ turn_history' = Push(turn_history, <<cp, <<die1, die2>>>>)
            /\ last_roll' = <<die1, die2>>
            /\ players' = [players EXCEPT
                             ![cp] = [score |-> r.player.score,
                                      banked_score |-> r.player.banked_score]]
            /\ turn_start_score' = r.player.turn_start_score
            /\ doubles_count' = r.player.doubles_count
            /\ IF r.over
               THEN /\ turn_ret' = [score |-> r.player.score,
                                    memory_exceeded |-> FALSE]
                    /\ must_roll' = TRUE
                    /\ pc' = "turn_done"
               ELSE /\ must_roll' = r.must_roll
                    /\ pc' = IF r.must_roll THEN "roll" ELSE "decide"
                    /\ UNCHANGED turn_ret
    /\ last_call' = NoCall
    /\ UNCHANGED runVars
    /\ UNCHANGED <<disqualified, player_order, current_player_index,
                   leader_score, leader_index, endgame_started,
                   players_had_final_turn, all_banked_scores, game_ret>>
    /\ UNCHANGED <<history_on, last_grow, progress_err, mgrVars, apiVars>>

(***************************************************************************)
(* The rules engine: simulate_game.                                        *)
(***************************************************************************)
ActivePlayers(disq) == { i \in DOMAIN disq : ~disq[i] }

\* active_players.first(): the lowest active seat.
First(S) == CHOOSE i \in S : \A j \in S : i <= j

NextIndex == (current_player_index + 1) % num_players

\* game.rs:327-337 and 354-364: the leader when at most one seat is left.
LeaderAfterExit(active, old) ==
    IF active # {} THEN [index |-> First(active), score |-> players[First(active)].score]
    ELSE old

\* game.rs:313-349: the head of the game loop, up to the call of simulate_turn.
GameLoop ==
    /\ pc = "loop"
    /\ LET cp == CurrentPlayer IN
       IF disqualified[cp]
       THEN /\ current_player_index' = NextIndex
            /\ UNCHANGED <<pc, turn_start_score, doubles_count, disqualified,
                           leader_score, leader_index, all_banked_scores>>
       ELSE IF is_memory_limit_exceeded(strategies[cp])
       THEN LET disq == [disqualified EXCEPT ![cp] = TRUE]
                active == ActivePlayers(disq)
                l == LeaderAfterExit(active, [index |-> leader_index,
                                              score |-> leader_score])
            IN  /\ disqualified' = disq
                /\ current_player_index' = NextIndex
                /\ IF Cardinality(active) <= 1
                   THEN /\ leader_index' = l.index
                        /\ leader_score' = l.score
                        /\ pc' = "payout"
                   ELSE /\ UNCHANGED <<leader_index, leader_score>>
                        /\ pc' = "loop"
                /\ UNCHANGED <<turn_start_score, doubles_count, all_banked_scores>>
       ELSE \* game.rs:341-349 and 191-193: simulate_turn is entered
            /\ all_banked_scores' = [i \in DOMAIN players |-> players[i].banked_score]
            /\ turn_start_score' = players[cp].score
            /\ doubles_count' = 0
            /\ pc' = "roll"
            /\ UNCHANGED <<disqualified, current_player_index, leader_score,
                           leader_index>>
    /\ UNCHANGED runVars
    /\ UNCHANGED <<players, turn_history, player_order, endgame_started,
                   players_had_final_turn, must_roll, turn_ret, game_ret>>
    /\ UNCHANGED <<obsVars, mgrVars, apiVars>>

\* An endgame that starts one point late.
StartsEndgameLate(started, score) == ~started /\ score > Threshold + 1

\* game.rs:369: the turn that starts the endgame.
StartsEndgame(started, score) == ~started /\ score > Threshold

\* game.rs:369-394: the endgame bookkeeping after a turn of seat cp: the new
\* endgame_started, leader_score, leader_index, players_had_final_turn and
\* whether the game loop is left.
EndgameStep(cp, score, started, lscore, lindex, had, disq) ==
    IF StartsEndgame(started, score)
    THEN [started |-> TRUE, leader_score |-> score, leader_index |-> cp,
          had |-> [i \in DOMAIN had |-> i = cp], exit |-> FALSE]
    ELSE IF started
    THEN LET newlead == score > lscore
             had1 == IF newlead THEN [i \in DOMAIN had |-> i = cp]
                     ELSE [had EXCEPT ![cp] = TRUE]
         IN  [started |-> TRUE,
              leader_score |-> IF newlead THEN score ELSE lscore,
              leader_index |-> IF newlead THEN cp ELSE lindex,
              had |-> had1,
              exit |-> \A i \in ActivePlayers(disq) : had1[i]]
    ELSE [started |-> started, leader_score |-> lscore, leader_index |-> lindex,
          had |-> had, exit |-> FALSE]

\* game.rs:351-396: the tail of the game loop, after simulate_turn returned.
TurnDone ==
    /\ pc = "turn_done"
    /\ LET cp == CurrentPlayer IN
       IF turn_ret.memory_exceeded \/ is_memory_limit_exceeded(strategies[cp])
       THEN LET disq == [disqualified EXCEPT ![cp] = TRUE]
                active == ActivePlayers(disq)
                l == LeaderAfterExit(active, [index |-> leader_index,
                                              score |-> leader_score])
            IN  /\ disqualified' = disq
                /\ IF Cardinality(active) <= 1
                   THEN /\ leader_index' = l.index
                        /\ leader_score' = l.score
                        /\ pc' = "payout"
                        /\ UNCHANGED current_player_index
                   ELSE /\ current_player_index' = NextIndex
                        /\ pc' = "loop"
                        /\ UNCHANGED <<leader_index, leader_score>>
                /\ UNCHANGED <<endgame_started, players_had_final_turn>>
       ELSE LET e == EndgameStep(cp, players[cp].score, endgame_started,
                                 leader_score, leader_index,
                                 players_had_final_turn, disqualified)
            IN  /\ endgame_started' = e.started
                /\ leader_score' = e.leader_score
                /\ leader_index' = e.leader_index
                /\ players_had_final_turn' = e.had
                /\ IF e.exit
                   THEN pc' = "payout" /\ UNCHANGED current_player_index
                   ELSE pc' = "loop" /\ current_player_index' = NextIndex
                /\ UNCHANGED disqualified
    /\ turn_ret' = NoTurn
    /\ last_call' = NoCall
    /\ last_roll' = NoRoll
    /\ UNCHANGED runVars
    /\ UNCHANGED <<players, turn_start_score, doubles_count, turn_history,
                   player_order, all_banked_scores, must_roll, game_ret>>
    /\ UNCHANGED <<history_on, last_grow, progress_err, mgrVars, apiVars>>

\* Iterator::max_by_key over the seats of S in increasing order: of several
\* equally maximum elements the last is returned.
MaxByKey(S, key) ==
    CHOOSE i \in S : \A j \in S : key[j] < key[i] \/ (key[j] = key[i] /\ j <= i)

\* game.rs:399-415
WinnerIndex(ps, disq, lindex) ==
    LET active == ActivePlayers(disq) IN
    IF active = {} THEN 0
    ELSE IF Cardinality(active) = 1 THEN First(active)
    ELSE MaxByKey(active, [i \in DOMAIN ps |-> ps[i].score])

\* A payment that is not doubled for a seat without points.
PaymentNotDoubled(winner_score, score) == winner_score - score

\* game.rs:437-442 and 447-452: what seat j pays the winner.
Payment(winner_score, score) ==
    LET diff == winner_score - score
    IN  IF score = 0 THEN diff * 2 ELSE diff

RECURSIVE SumOver(_, _)
SumOver(S, f) ==
    IF S = {} THEN 0
    ELSE LET x == CHOOSE y \in S : TRUE IN f[x] + SumOver(S \ {x}, f)

\* Results with the winner collecting from every other seat, the
\* disqualified included.
ResultsCollectFromAll(ps, disq, winner_index) ==
    LET winner_score == ps[winner_index].score
        pay == [j \in DOMAIN ps |-> Payment(winner_score, ps[j].score)]
    IN  [i \in DOMAIN ps |->
           [wins  |-> IF i = winner_index /\ ~disq[i] THEN 1 ELSE 0,
            money |-> IF disq[i] THEN 0
                      ELSE IF i = winner_index
                      THEN SumOver({ j \in DOMAIN ps : j # i }, pay)
                      ELSE 0 - pay[i]]]

\* Results with a win credited to every active seat that has the winning score.
ResultsCreditTopScores(ps, disq, winner_index) ==
    LET winner_score == ps[winner_index].score
        pay == [j \in DOMAIN ps |-> Payment(winner_score, ps[j].score)]
    IN  [i \in DOMAIN ps |->
           [wins  |-> IF ps[i].score = winner_score /\ ~disq[i] THEN 1 ELSE 0,
            money |-> IF disq[i] THEN 0
                      ELSE IF i = winner_index
                      THEN SumOver({ j \in DOMAIN ps : j # i /\ ~disq[j] }, pay)
                      ELSE 0 - pay[i]]]

\* game.rs:417-455: the results vector (wins, money) of a game.
Results(ps, disq, winner_index) ==
    LET winner_score == ps[winner_index].score
        pay == [j \in DOMAIN ps |-> Payment(winner_score, ps[j].score)]
    IN  [i \in DOMAIN ps |->
           [wins  |-> IF i = winner_index /\ ~disq[i] THEN 1 ELSE 0,
            money |-> IF disq[i] THEN 0
                      ELSE IF i = winner_index
                      THEN SumOver({ j \in DOMAIN ps : j # i /\ ~disq[j] }, pay)
                      ELSE 0 - pay[i]]]

\* game.rs:399-462: the game loop is left; simulate_game returns.
Payout ==
    /\ pc = "payout"
    /\ game_ret' =
         [results |-> Results(players, disqualified,
                              WinnerIndex(players, disqualified, leader_index)),
          usage_stats |-> [i \in DOMAIN strategies |->
                             peak_memory_bytes(strategies[i])],
          disqualified |-> disqualified]
    /\ pc' = "aggregate"
    /\ UNCHANGED runVars
    /\ UNCHANGED <<players, turn_start_score, doubles_count, disqualified,
                   turn_history, player_order, current_player_index, leader_score,
                   leader_index, endgame_started, players_had_final_turn,
                   all_banked_scores, must_roll, turn_ret>>
    /\ UNCHANGED <<obsVars, mgrVars, apiVars>>

(***************************************************************************)
(* The tournament runner: run_simulation and run_simulation_sync.          *)
(***************************************************************************)

\* simulation.rs:97-103: the status becomes running.
Start ==
    /\ pc = "start"
    /\ IF SqlExecutes(UpdateRunning)
       THEN /\ db' = [db EXCEPT !.status = "running"]
            /\ pc' = "instantiate"
       ELSE /\ pc' = "signal"
            /\ UNCHANGED db
    /\ UNCHANGED <<num_players, num_games, strategies, total_stats,
                   total_usage_stats, permanently_disqualified, game_num,
                   sim_result>>
    /\ UNCHANGED <<gameVars, obsVars, mgrVars, apiVars>>

\* simulation.rs:200-202
MemoryLimitPerBot(n) == (MemoryLimitMb * 1024 * 1024) \div n

\* What loading one bot meets: the file read, the compilation, the memory the
\* instance asks for while it is instantiated, the instantiation itself.
Instantiations ==
    { [read_ok |-> r, compile_ok |-> c, grows |-> g, instantiate_ok |-> i] :
        r \in BOOLEAN, c \in BOOLEAN, i \in BOOLEAN,
        g \in { <<[desired |-> 65536, maximum |-> None]>>,
                <<[desired |-> 100 * 1024 * 1024 + 65536, maximum |-> None]>> } }

\* WasmStrategy::new (game.rs:104-127): the store of the new strategy and
\* the error, "" when there is none.
WasmStrategyNew(inst) ==
    LET g == ApplyGrows(NewStoreData, inst.grows) IN
    IF ~inst.compile_ok
    THEN [store |-> NewStoreData, error |-> "Failed to compile WASM component"]
    ELSE IF g.denied \/ ~inst.instantiate_ok
    THEN [store |-> g.store, error |-> "Failed to instantiate WASM component"]
    ELSE [store |-> g.store, error |-> ""]

\* simulation.rs:204-210: one bot is loaded.
Instantiate ==
    /\ pc = "instantiate"
    /\ LET k == Cardinality(DOMAIN strategies) IN
       /\ k < num_players
       /\ \E inst \in Instantiations :
            LET w == WasmStrategyNew(inst) IN
            IF ~inst.read_ok
            THEN /\ sim_result' = [ok |-> FALSE, returned |-> TRUE,
                                   error |-> "No such file or directory"]
                 /\ pc' = "publish"
                 /\ UNCHANGED strategies
            ELSE IF w.error # ""
            THEN /\ sim_result' = [ok |-> FALSE, returned |-> TRUE,
                                   error |-> w.error]
                 /\ pc' = "publish"
                 /\ UNCHANGED strategies
            ELSE /\ strategies' =
                      [i \in Seats(k + 1) |->
                         IF i < k THEN strategies[i]
                         ELSE set_memory_limit(w.store,
                                               MemoryLimitPerBot(num_players))]
                 /\ UNCHANGED <<sim_result, pc>>
    /\ UNCHANGED <<num_players, num_games, total_stats, total_usage_stats,
                   permanently_disqualified, game_num, db>>
    /\ UNCHANGED <<gameVars, obsVars, mgrVars, apiVars>>

\* simulation.rs:212-218: the aggregates are created.
InitTotals ==
    /\ pc = "instantiate"
    /\ Cardinality(DOMAIN strategies) = num_players
    /\ total_stats = << >>
    /\ total_stats' = [i \in Seats(num_players) |-> [wins |-> 0, money |-> 0]]
    /\ total_usage_stats' = [i \in Seats(num_players) |-> 0]
    /\ permanently_disqualified' = [i \in Seats(num_players) |-> FALSE]
    /\ pc' = "next_game"
    /\ UNCHANGED <<num_players, num_games, strategies, game_num, sim_result, db>>
    /\ UNCHANGED <<gameVars, obsVars, mgrVars, apiVars>>

ActiveCount == Cardinality({ i \in DOMAIN permanently_disqualified :
                               ~permanently_disqualified[i] })

\* simulation.rs:220-226: does the for loop play another game.
PlaysAnotherGame == game_num < num_games /\ ActiveCount > 1

\* simulation.rs:220-228 and game.rs:284-310: a game starts.
StartGame ==
    /\ pc = "next_game"
    /\ PlaysAnotherGame
    /\ \E order \in Permutations0(num_players) :
        player_order' = order
    /\ players' = [i \in Seats(num_players) |-> NewPlayerState]
    /\ disqualified' = [i \in Seats(num_players) |-> FALSE]
    /\ turn_history' = << >>
    /\ current_player_index' = 0
    /\ leader_score' = 0
    /\ leader_index' = 0
    /\ endgame_started' = FALSE
    /\ players_had_final_turn' = [i \in Seats(num_players) |-> FALSE]
    /\ pc' = "loop"
    /\ UNCHANGED runVars
    /\ UNCHANGED <<turn_start_score, doubles_count, all_banked_scores, must_roll,
                   turn_ret, game_ret>>
    /\ UNCHANGED <<obsVars, mgrVars, apiVars>>

\* simulation.rs:220-226 and 261-266: the loop is over; the aggregates are
\* returned.
ReturnOk ==
    /\ pc = "next_game"
    /\ ~PlaysAnotherGame
    /\ sim_result' = [ok |-> TRUE, returned |-> TRUE, error |-> ""]
    /\ pc' = "publish"
    /\ UNCHANGED <<num_players, num_games, strategies, total_stats,
                   total_usage_stats, permanently_disqualified, game_num, db>>
    /\ UNCHANGED <<gameVars, obsVars, mgrVars, apiVars>>

\* simulation.rs:217-218
UpdateInterval(n) == Max(5000, Max(1, n \div 100))

\* simulation.rs:244
PublishesProgress(g, n) == (g + 1) % UpdateInterval(n) = 0 \/ g + 1 = n

\* simulation.rs:229-241: the aggregates after a game.
AddStats(stats, results) ==
    [i \in DOMAIN stats |->
       [wins  |-> stats[i].wins + results[i].wins,
        money |-> stats[i].money + results[i].money]]

\* simulation.rs:232: the per-seat peak after a game.
MaxUsage(total, usage) == [i \in DOMAIN total |-> Max(total[i], usage[i])]

\* simulation.rs:228-258: a game returned; its results are aggregated and the
\* progress is published.  The progress statement is valid against the
\* schema and can still fail when it is run (the database is locked or
\* cannot be written): executes is its outcome, and the error is dropped
\* (let _ =, simulation.rs:252).
Aggregate ==
    /\ pc = "aggregate"
    /\ total_stats' = AddStats(total_stats, game_ret.results)
    /\ total_usage_stats' = MaxUsage(total_usage_stats, game_ret.usage_stats)
    /\ permanently_disqualified' =
         [i \in DOMAIN permanently_disqualified |->
            permanently_disqualified[i] \/ game_ret.disqualified[i]]
    /\ \E executes \in BOOLEAN :
         /\ ~PublishesProgress(game_num, num_games) => executes
         /\ db' = IF /\ PublishesProgress(game_num, num_games)
                     /\ SqlExecutes(UpdateProgress) /\ executes
                  THEN [db EXCEPT !.games_completed = game_num + 1]
                  ELSE db
         /\ progress_err' = (progress_err \/ ~executes)
    /\ game_num' = game_num + 1
    /\ pc' = "next_game"
    /\ players' = << >>
    /\ turn_start_score' = 0
    /\ doubles_count' = 0
    /\ disqualified' = << >>
    /\ turn_history' = << >>
    /\ player_order' = << >>
    /\ current_player_index' = 0
    /\ leader_score' = 0
    /\ leader_index' = 0
    /\ endgame_started' = FALSE
    /\ players_had_final_turn' = << >>
    /\ all_banked_scores' = << >>
    /\ game_ret' = NoGame
    /\ UNCHANGED <<must_roll, turn_ret>>
    /\ UNCHANGED <<num_players, num_games, strategies, sim_result>>
    /\ UNCHANGED <<last_call, last_roll, history_on, last_grow, mgrVars, apiVars>>

\* simulation.rs:117-188: the runner's result is persisted.
Publish ==
    /\ pc = "publish"
    /\ db' = [db EXCEPT
                !.status = StatusAfterRun(db.status, sim_result),
                !.error_message = ErrorAfterRun(db.error_message, sim_result),
                !.participants =
                    IF ParticipantsWritten(sim_result)
                    THEN [i \in DOMAIN total_stats |->
                            [games_won |-> total_stats[i].wins,
                             total_money |-> total_stats[i].money]]
                    ELSE db.participants]
    /\ pc' = "signal"
    /\ UNCHANGED <<num_players, num_games, strategies, total_stats,
                   total_usage_stats, permanently_disqualified, game_num,
                   sim_result>>
    /\ UNCHANGED <<gameVars, obsVars, mgrVars, apiVars>>

\* simulation.rs:62-65: the spawned task sends the completion signal.
Signal ==
    /\ pc = "signal"
    /\ pc' = "done"
    /\ UNCHANGED <<runVars, gameVars, obsVars, mgrVars, apiVars>>

Next ==
    \/ Start
    \/ Instantiate
    \/ InitTotals
    \/ StartGame
    \/ GameLoop
    \/ Decide
    \/ Roll
    \/ TurnDone
    \/ Payout
    \/ Aggregate
    \/ ReturnOk
    \/ Publish
    \/ Signal

Spec == Init /\ [][Next]_vars

(***************************************************************************)
(* The SimulationManager (simulation.rs:15-87).  Its operations run under  *)
(* the exclusive lock of the manager, one at a time; the spawned workers   *)
(* run beside them.                                                        *)
(***************************************************************************)
SimIds == 1 .. MaxSims

NoWorker == [pc |-> "none", result |-> NoResult]

InitMgr ==
    /\ pc = "mgr"
    /\ num_players = 0
    /\ num_games = 0
    /\ strategies = << >>
    /\ total_stats = << >>
    /\ total_usage_stats = << >>
    /\ permanently_disqualified = << >>
    /\ game_num = 0
    /\ sim_result = NoResult
    /\ db = [status |-> "", error_message |-> "", games_completed |-> 0,
             participants |-> << >>]
    /\ GameIdle
    /\ last_call = NoCall
    /\ last_roll = NoRoll
    /\ history_on = FALSE
    /\ last_grow = NoGrow
    /\ progress_err = FALSE
    /\ ApiIdle
    /\ queue = << >>
    /\ is_running = FALSE
    /\ completion_rx = None
    /\ chan = [i \in SimIds |-> "none"]
    /\ worker = [i \in SimIds |-> NoWorker]
    /\ sim_status = [i \in SimIds |-> "none"]
    /\ start_log = << >>
    /\ next_id = 1

\* A queue that takes new tasks at the front.
push_front(q, t) == <<t>> \o q

\* VecDeque::push_back and pop_front (simulation.rs:41 and 54).
push_back(q, t) == Append(q, t)
pop_front(q) == [task |-> Head(q), rest |-> Tail(q)]

\* queue_simulation starting a worker without looking at is_running.
StartsOnQueueAlways(running) == TRUE

\* A manager that leaves every start to the poll.
StartsOnQueueNever(running) == FALSE

\* simulation.rs:47: queue_simulation starts a worker itself.
StartsOnQueue(running) == ~running

\* A poll that never finds the signal.
try_recv_never(c) == FALSE

\* simulation.rs:75: rx.try_recv().is_ok() on the channel c.
try_recv_is_ok(c) == chan[c] = "sent"

\* simulation.rs:52-70: start_worker, on the queue q, the receiver rx, the
\* channels ch and the tasks w as its caller left them.
start_worker(q, rx, ch, w) ==
    IF q # << >>
    THEN LET t == pop_front(q).task IN
         /\ queue' = pop_front(q).rest
         /\ is_running' = TRUE
         /\ completion_rx' = Some(t)
         /\ chan' = [ch EXCEPT ![t] = "open"]
         /\ worker' = [w EXCEPT ![t] = [pc |-> "spawned", result |-> NoResult]]
         /\ start_log' = Append(start_log, t)
    ELSE /\ queue' = q
         /\ is_running' = FALSE
         /\ completion_rx' = rx
         /\ chan' = ch
         /\ worker' = w
         /\ UNCHANGED start_log

\* simulation.rs:34-50, after the API has inserted the row with status pending
\* (api.rs:221-244).
QueueSimulation ==
    /\ pc = "mgr"
    /\ next_id <= MaxSims
    /\ LET id == next_id
           q == push_back(queue, id)
           w == [worker EXCEPT ![id] = [pc |-> "queued", result |-> NoResult]]
       IN  /\ sim_status' = [sim_status EXCEPT ![id] = "pending"]
           /\ next_id' = next_id + 1
           /\ IF StartsOnQueue(is_running)
              THEN start_worker(q, completion_rx, chan, w)
              ELSE /\ queue' = q
                   /\ worker' = w
                   /\ UNCHANGED <<is_running, completion_rx, chan, start_log>>
    /\ UNCHANGED <<pc, runVars, gameVars, obsVars, apiVars>>

\* simulation.rs:72-86
CheckAndStartNext ==
    /\ pc = "mgr"
    /\ LET got == \E c \in completion_rx : try_recv_is_ok(c)
           running1 == IF got THEN FALSE ELSE is_running
           rx1 == IF got THEN None ELSE completion_rx
           chan1 == IF got
                    THEN [c \in SimIds |->
                            IF c \in completion_rx THEN "received" ELSE chan[c]]
                    ELSE chan
       IN  IF ~running1 /\ queue # << >>
           THEN start_worker(queue, rx1, chan1, worker)
           ELSE /\ is_running' = running1
                /\ completion_rx' = rx1
                /\ chan' = chan1
                /\ UNCHANGED <<queue, worker, start_log>>
    /\ UNCHANGED <<sim_status, next_id>>
    /\ UNCHANGED <<pc, runVars, gameVars, obsVars, apiVars>>

\* What run_simulation_sync can return to run_simulation.
RunnerResults ==
    { [ok |-> TRUE, returned |-> TRUE, error |-> ""],
      [ok |-> FALSE, returned |-> TRUE,
       error |-> "Failed to call should_roll function"] }

\* simulation.rs:97-103, in the task of tournament id.
WorkerStart(id) ==
    /\ worker[id].pc = "spawned"
    /\ IF SqlExecutes(UpdateRunning)
       THEN /\ sim_status' = [sim_status EXCEPT ![id] = "running"]
            /\ worker' = [worker EXCEPT ![id].pc = "running"]
       ELSE /\ worker' = [worker EXCEPT ![id].pc = "returned"]
            /\ UNCHANGED sim_status
    /\ UNCHANGED <<queue, is_running, completion_rx, chan, start_log, next_id>>
    /\ UNCHANGED <<pc, runVars, gameVars, obsVars, apiVars>>

\* simulation.rs:109-115: the blocking task runs the tournament and returns.
WorkerRun(id) ==
    /\ worker[id].pc = "running"
    /\ \E res \in RunnerResults :
        worker' = [worker EXCEPT ![id] = [pc |-> "ran", result |-> res]]
    /\ UNCHANGED <<queue, is_running, completion_rx, chan, sim_status, start_log,
                   next_id>>
    /\ UNCHANGED <<pc, runVars, gameVars, obsVars, apiVars>>

\* simulation.rs:117-188
WorkerPublish(id) ==
    /\ worker[id].pc = "ran"
    /\ sim_status' = [sim_status EXCEPT
                        ![id] = StatusAfterRun(sim_status[id], worker[id].result)]
    /\ worker' = [worker EXCEPT ![id].pc = "returned"]
    /\ UNCHANGED <<queue, is_running, completion_rx, chan, start_log, next_id>>
    /\ UNCHANGED <<pc, runVars, gameVars, obsVars, apiVars>>

\* simulation.rs:64: tx.send(()); the signal is lost when the receiver of the
\* channel has been dropped.
WorkerSignal(id) ==
    /\ worker[id].pc = "returned"
    /\ worker' = [worker EXCEPT ![id].pc = "signalled"]
    /\ chan' = [chan EXCEPT ![id] = IF id \in completion_rx THEN "sent" ELSE chan[id]]
    /\ UNCHANGED <<queue, is_running, completion_rx, sim_status, start_log, next_id>>
    /\ UNCHANGED <<pc, runVars, gameVars, obsVars, apiVars>>

WorkerStep(id) ==
    \/ WorkerStart(id)
    \/ WorkerRun(id)
    \/ WorkerPublish(id)
    \/ WorkerSignal(id)

NextMgr ==
    \/ QueueSimulation
    \/ CheckAndStartNext
    \/ \E id \in SimIds : WorkerStep(id)

SpecMgr == InitMgr /\ [][NextMgr]_vars

\* The poll is invoked on a periodic tick and every spawned task runs on.
FairSpecMgr ==
    /\ SpecMgr
    /\ WF_vars(CheckAndStartNext)
    /\ \A id \in SimIds : WF_vars(WorkerStep(id))

(***************************************************************************)
(* One game of three seats: simulate_game as run_simulation_sync calls it, *)
(* from the moment the seats have been shuffled into seat order.  It is    *)
(* the second game of a tournament of two, after a first game, played in   *)
(* the order 0, 2, 1, in which the last seat breached its memory limit:    *)
(* seat 0 crossed the threshold with a five and a six, the last seat       *)
(* rolled three and its should_roll call failed with a resource error,     *)
(* and seat 1 rolled a seven.                                              *)
(***************************************************************************)

\* simulation.rs:204-210: the store of a bot loaded for a tournament of n.
LoadedStore(n) ==
    set_memory_limit(
        WasmStrategyNew([read_ok |-> TRUE, compile_ok |-> TRUE,
                         grows |-> <<[desired |-> 65536, maximum |-> None]>>,
                         instantiate_ok |-> TRUE]).store,
        MemoryLimitPerBot(n))

\* What seat 0 won in the first game, with 5 + 6 points against none.
FirstGameWinnings == Payment(DieFaces + DieFaces - 1, 0)

InitGame ==
    /\ pc = "loop"
    /\ num_players = GameSeats
    /\ num_games = 2
    /\ sim_result = NoResult
    /\ db = [status |-> "running", error_message |-> "", games_completed |-> 0,
             participants |-> [i \in Seats(num_players) |->
                                 [games_won |-> 0, total_money |-> 0]]]
    /\ game_num = 1
    /\ strategies =
         [i \in Seats(num_players) |->
            IF i = num_players - 1
            THEN [LoadedStore(num_players) EXCEPT !.memory_limit_hit = TRUE]
            ELSE LoadedStore(num_players)]
    /\ total_stats =
         [i \in Seats(num_players) |->
            IF i = 0 THEN [wins |-> 1, money |-> FirstGameWinnings]
            ELSE IF i = 1 THEN [wins |-> 0, money |-> 0 - FirstGameWinnings]
            ELSE [wins |-> 0, money |-> 0]]
    /\ total_usage_stats =
         [i \in Seats(num_players) |-> peak_memory_bytes(strategies[i])]
    /\ permanently_disqualified =
         [i \in Seats(num_players) |-> i = num_players - 1]
    /\ players = [i \in Seats(num_players) |-> NewPlayerState]
    /\ turn_start_score = 0
    /\ doubles_count = 0
    /\ disqualified = [i \in Seats(num_players) |-> FALSE]
    /\ turn_history = << >>
    /\ player_order \in Permutations0(num_players)
    /\ current_player_index = 0
    /\ leader_score = 0
    /\ leader_index = 0
    /\ endgame_started = FALSE
    /\ players_had_final_turn = [i \in Seats(num_players) |-> FALSE]
    /\ all_banked_scores = << >>
    /\ must_roll = TRUE
    /\ turn_ret = NoTurn
    /\ game_ret = NoGame
    /\ last_call = NoCall
    /\ last_roll = NoRoll
    /\ history_on = FALSE
    /\ last_grow = NoGrow
    /\ progress_err = FALSE
    /\ ApiIdle
    /\ MgrIdle

NextGame ==
    \/ GameLoop
    \/ Decide
    \/ Roll
    \/ TurnDone
    \/ Payout

SpecGame == InitGame /\ [][NextGame]_vars

\* The same game with the runner's aggregation of its results
\* (simulation.rs:228-258) after it.
NextGameAggregated ==
    \/ NextGame
    \/ Aggregate

SpecGameAggregated == InitGame /\ [][NextGameAggregated]_vars

(***************************************************************************)
(* The strategy instances of one tournament and their limiters.  The       *)
(* runner creates the instances one after another (simulation.rs:204-210), *)
(* every instance answers the grow requests of its component               *)
(* (game.rs:46-75), and after every game the runner folds the peaks into   *)
(* its per-seat maximum (game.rs:457-462, simulation.rs:232).              *)
(***************************************************************************)

\* The sizes a component asks for: one page, the limit WasmStrategy::new
\* sets, and more than the tournament's whole allowance.
HostSizes == {65536, 100 * 1024 * 1024, MemoryLimitMb * 1024 * 1024 + 65536}

\* The maximum the engine passes: none, or the one page a memory declares.
HostRequests ==
    { [desired |-> d, maximum |-> m] : d \in HostSizes, m \in {None, Some(65536)} }

\* The memory_limit of a store (always Some in this program).
LimitOf(s) == CHOOSE limit \in s.memory_limit : TRUE

\* The sum of the memory limits of the instances alive.
LiveLimits ==
    SumOver(DOMAIN strategies, [i \in DOMAIN strategies |-> LimitOf(strategies[i])])

InitHost ==
    /\ pc = "host_new"
    /\ num_players \in 1 .. GameSeats
    /\ num_games = MaxGames
    /\ strategies = << >>
    /\ total_stats = << >>
    /\ total_usage_stats = << >>
    /\ permanently_disqualified = << >>
    /\ game_num = 0
    /\ sim_result = NoResult
    /\ db = [status |-> "running", error_message |-> "", games_completed |-> 0,
             participants |-> [i \in Seats(num_players) |->
                                 [games_won |-> 0, total_money |-> 0]]]
    /\ GameIdle
    /\ last_call = NoCall
    /\ last_roll = NoRoll
    /\ history_on = FALSE
    /\ last_grow = NoGrow
    /\ progress_err = FALSE
    /\ ApiIdle
    /\ MgrIdle

\* game.rs:105-115: WasmStrategy::new creates the store of the next instance
\* and attaches the limiter; the component is about to be instantiated.
HostNew ==
    /\ pc = "host_new"
    /\ LET k == Cardinality(DOMAIN strategies) IN
       /\ k < num_players
       /\ strategies' = [i \in Seats(k + 1) |->
                           IF i < k THEN strategies[i] ELSE NewStoreData]
    /\ pc' = "host_limit"
    /\ last_grow' = NoGrow
    /\ UNCHANGED <<num_players, num_games, total_stats, total_usage_stats,
                   permanently_disqualified, game_num, sim_result, db>>
    /\ UNCHANGED <<gameVars, last_call, last_roll, history_on, progress_err, mgrVars, apiVars>>

\* simulation.rs:206-208: the instance is there; its limit is set and it is
\* pushed.
HostSetLimit ==
    /\ pc = "host_limit"
    /\ LET k == Cardinality(DOMAIN strategies) IN
       strategies' = [strategies EXCEPT
                        ![k - 1] = set_memory_limit(@, MemoryLimitPerBot(num_players))]
    /\ pc' = "host_new"
    /\ last_grow' = NoGrow
    /\ UNCHANGED <<num_players, num_games, total_stats, total_usage_stats,
                   permanently_disqualified, game_num, sim_result, db>>
    /\ UNCHANGED <<gameVars, last_call, last_roll, history_on, progress_err, mgrVars, apiVars>>

\* simulation.rs:212-215: every instance is loaded.
HostTotals ==
    /\ pc = "host_new"
    /\ Cardinality(DOMAIN strategies) = num_players
    /\ total_stats' = [i \in Seats(num_players) |-> [wins |-> 0, money |-> 0]]
    /\ total_usage_stats' = [i \in Seats(num_players) |-> 0]
    /\ permanently_disqualified' = [i \in Seats(num_players) |-> FALSE]
    /\ pc' = "host_run"
    /\ last_grow' = NoGrow
    /\ UNCHANGED <<num_players, num_games, strategies, game_num, sim_result, db>>
    /\ UNCHANGED <<gameVars, last_call, last_roll, history_on, progress_err, mgrVars, apiVars>>

\* game.rs:46-75: an instance asks for memory, while it is instantiated
\* (game.rs:123) or while it is called in a game (game.rs:145-148).  A
\* request denied during the instantiation fails it (game.rs:124) and with
\* it the tournament.
HostGrow ==
    /\ pc \in {"host_limit", "host_run"}
    /\ \E i \in DOMAIN strategies, req \in HostRequests :
        LET g == memory_growing(strategies[i], req.desired, req.maximum) IN
        /\ pc = "host_limit" => i = Cardinality(DOMAIN strategies) - 1
        /\ strategies' = [strategies EXCEPT ![i] = g.store]
        /\ last_grow' = [requested |-> TRUE, seat |-> i, desired |-> req.desired,
                         maximum |-> req.maximum, ok |-> g.ok,
                         hit_before |-> strategies[i].memory_limit_hit]
        /\ IF pc = "host_limit" /\ ~g.ok
           THEN /\ pc' = "host_failed"
                /\ sim_result' = [ok |-> FALSE, returned |-> TRUE,
                                  error |-> "Failed to instantiate WASM component"]
           ELSE UNCHANGED <<pc, sim_result>>
    /\ UNCHANGED <<num_players, num_games, total_stats, total_usage_stats,
                   permanently_disqualified, game_num, db>>
    /\ UNCHANGED <<gameVars, last_call, last_roll, history_on, progress_err, mgrVars, apiVars>>

\* game.rs:457-462 and simulation.rs:232: a game is over; the peaks of the
\* instances are read and folded into the per-seat maximum.
HostGameEnd ==
    /\ pc = "host_run"
    /\ game_num < num_games
    /\ total_usage_stats' =
         MaxUsage(total_usage_stats,
                  [i \in DOMAIN strategies |-> peak_memory_bytes(strategies[i])])
    /\ game_num' = game_num + 1
    /\ last_grow' = NoGrow
    /\ UNCHANGED <<pc, num_players, num_games, strategies, total_stats,
                   permanently_disqualified, sim_result, db>>
    /\ UNCHANGED <<gameVars, last_call, last_roll, history_on, progress_err, mgrVars, apiVars>>

NextHost ==
    \/ HostNew
    \/ HostSetLimit
    \/ HostTotals
    \/ HostGrow
    \/ HostGameEnd

SpecHost == InitHost /\ [][NextHost]_vars

(***************************************************************************)
(* The bot registry: upload_bot (api.rs:91-172) against the bots table     *)
(* (db.rs:45-52).  The handler is an async function: every await of a      *)
(* statement or of the file write is a point at which other requests run.  *)
(***************************************************************************)
MaxUploads == 3

UploadIds == 1 .. MaxUploads

\* What is uploaded: two components and bytes that are no component.
WasmData == {"component_a", "component_b", "junk"}

\* game.rs:117-118: the bytes compile.
IsComponent(wasm_data) == wasm_data # "junk"

\* api.rs:128-130: the SHA-256 of the bytes in hexadecimal, one digest per
\* content.
Sha256Hex(wasm_data) ==
    CASE wasm_data = "component_a" -> "9f2c"
      [] wasm_data = "component_b" -> "41d7"
      [] OTHER                     -> "e0b3"

\* api.rs:147: what Uuid::new_v4 can return.
Uuids == {"uuid_1", "uuid_2", "uuid_3"}

NoUpload == [pc |-> "idle", wasm |-> "", hash |-> "", bot_id |-> ""]

\* A bots table that takes any row with a new id.
InsertWithoutUnique(table, row) == \A b \in table : b.id # row.id

\* db.rs:45-52: an INSERT into bots is refused when the id (PRIMARY KEY) or
\* the wasm_hash (UNIQUE) is already there.
InsertExecutes(table, row) ==
    \A b \in table : b.id # row.id /\ b.wasm_hash # row.wasm_hash

\* api.rs:133-135: SELECT * FROM bots WHERE wasm_hash = ?, fetch_optional.
FetchOptional(table, hash) ==
    IF \E b \in table : b.wasm_hash = hash
    THEN Some(CHOOSE b \in table : b.wasm_hash = hash)
    ELSE None

InitApi ==
    /\ pc = "api"
    /\ num_players = 0
    /\ num_games = 0
    /\ strategies = << >>
    /\ total_stats = << >>
    /\ total_usage_stats = << >>
    /\ permanently_disqualified = << >>
    /\ game_num = 0
    /\ sim_result = NoResult
    /\ db = [status |-> "", error_message |-> "", games_completed |-> 0,
             participants |-> << >>]
    /\ GameIdle
    /\ last_call = NoCall
    /\ last_roll = NoRoll
    /\ history_on = FALSE
    /\ last_grow = NoGrow
    /\ progress_err = FALSE
    /\ MgrIdle
    /\ bots = {}
    /\ files = {}
    /\ uploads = [r \in UploadIds |-> NoUpload]
    /\ responses = << >>

\* api.rs:91-130: the request is read, the bytes are validated and hashed.
\* Bytes that are no component are answered with 422.
UploadReceive(r) ==
    /\ uploads[r].pc = "idle"
    /\ \E wasm_data \in WasmData :
        uploads' = [uploads EXCEPT
                      ![r] = IF IsComponent(wasm_data)
                             THEN [pc |-> "select", wasm |-> wasm_data,
                                   hash |-> Sha256Hex(wasm_data), bot_id |-> ""]
                             ELSE [pc |-> "unprocessable", wasm |-> wasm_data,
                                   hash |-> "", bot_id |-> ""]]
    /\ UNCHANGED <<bots, files, responses>>
    /\ UNCHANGED <<pc, runVars, gameVars, obsVars, mgrVars>>

\* api.rs:132-147: the lookup by hash; a bot found is the answer, otherwise
\* an id is drawn for the new bot.
UploadSelect(r) ==
    /\ uploads[r].pc = "select"
    /\ \E executes \in BOOLEAN, bot_id \in Uuids :
        LET existing == FetchOptional(bots, uploads[r].hash) IN
        IF ~executes
        THEN /\ uploads' = [uploads EXCEPT ![r].pc = "server_error"]
             /\ UNCHANGED responses
        ELSE IF existing # None
        THEN /\ uploads' = [uploads EXCEPT
                              ![r].pc = "ok",
                              ![r].bot_id = (CHOOSE b \in existing : TRUE).id]
             /\ responses' = Append(responses,
                                    [wasm |-> uploads[r].wasm,
                                     id |-> (CHOOSE b \in existing : TRUE).id])
        ELSE /\ uploads' = [uploads EXCEPT ![r].pc = "write", ![r].bot_id = bot_id]
             /\ UNCHANGED responses
    /\ UNCHANGED <<bots, files>>
    /\ UNCHANGED <<pc, runVars, gameVars, obsVars, mgrVars>>

\* api.rs:148-153: the file is written.
UploadWrite(r) ==
    /\ uploads[r].pc = "write"
    /\ \E written \in BOOLEAN :
        IF written
        THEN /\ files' = files \cup {uploads[r].bot_id}
             /\ uploads' = [uploads EXCEPT ![r].pc = "insert"]
        ELSE /\ uploads' = [uploads EXCEPT ![r].pc = "server_error"]
             /\ UNCHANGED files
    /\ UNCHANGED <<bots, responses>>
    /\ UNCHANGED <<pc, runVars, gameVars, obsVars, mgrVars>>

\* api.rs:155-171: the row is inserted and the new id is the answer.
UploadInsert(r) ==
    /\ uploads[r].pc = "insert"
    /\ LET row == [id |-> uploads[r].bot_id, wasm_hash |-> uploads[r].hash] IN
       IF InsertExecutes(bots, row)
       THEN /\ bots' = bots \cup {row}
            /\ uploads' = [uploads EXCEPT ![r].pc = "ok"]
            /\ responses' = Append(responses,
                                   [wasm |-> uploads[r].wasm, id |-> row.id])
       ELSE /\ uploads' = [uploads EXCEPT ![r].pc = "server_error"]
            /\ UNCHANGED <<bots, responses>>
    /\ UNCHANGED files
    /\ UNCHANGED <<pc, runVars, gameVars, obsVars, mgrVars>>

UploadStep(r) ==
    \/ UploadReceive(r)
    \/ UploadSelect(r)
    \/ UploadWrite(r)
    \/ UploadInsert(r)

NextApi == \E r \in UploadIds : UploadStep(r)

SpecApi == InitApi /\ [][NextApi]_vars

(***************************************************************************)
(* One tournament of two seats with the turn history of its games kept,    *)
(* every game followed for its first MaxRolls rolls.                       *)
(***************************************************************************)
InitHistory ==
    /\ pc = "start"
    /\ num_players = 2
    /\ num_games = MaxGames
    /\ strategies = << >>
    /\ total_stats = << >>
    /\ total_usage_stats = << >>
    /\ permanently_disqualified = << >>
    /\ game_num = 0
    /\ sim_result = NoResult
    /\ db = [status |-> "pending", error_message |-> "", games_completed |-> 0,
             participants |-> [i \in Seats(num_players) |->
                                 [games_won |-> 0, total_money |-> 0]]]
    /\ GameIdle
    /\ last_call = NoCall
    /\ last_roll = NoRoll
    /\ history_on = TRUE
    /\ last_grow = NoGrow
    /\ progress_err = FALSE
    /\ ApiIdle
    /\ MgrIdle

SpecHistory == InitHistory /\ [][Next]_vars

(***************************************************************************)
(* Properties.                                                             *)
(***************************************************************************)

\* simulate_game has returned and the runner has not yet consumed its result.
GameReturned == pc = "aggregate"

Money == [i \in DOMAIN game_ret.results |-> game_ret.results[i].money]
Wins == [i \in DOMAIN game_ret.results |-> game_ret.results[i].wins]

\* C1: in every game simulate_game returns, the money of all seats sums to
\* zero and every disqualified seat has money 0.
C1_ZeroSum ==
    GameReturned =>
        /\ SumOver(DOMAIN Money, Money) = 0
        /\ \A i \in DOMAIN Money : game_ret.disqualified[i] => Money[i] = 0

\* A game has returned in which money changed hands.
C1_Witness == GameReturned /\ \E i \in DOMAIN Money : Money[i] > 0

\* C2: every game simulate_game returns credits exactly one seat with a win,
\* a seat that is not disqualified, and every other seat with none; when
\* every seat ended disqualified nobody is credited.
C2_OneWinner ==
    GameReturned =>
        /\ \A i \in DOMAIN Wins : Wins[i] \in {0, 1}
        /\ IF \A i \in DOMAIN Wins : game_ret.disqualified[i]
           THEN \A i \in DOMAIN Wins : Wins[i] = 0
           ELSE \E w \in DOMAIN Wins :
                   /\ Wins[w] = 1
                   /\ ~game_ret.disqualified[w]
                   /\ \A i \in DOMAIN Wins : i # w => Wins[i] = 0

\* A game has returned that the endgame ended between two seats level on
\* points, one of them credited.
C2_Witness ==
    GameReturned /\ endgame_started
    /\ \E i, j \in DOMAIN Wins :
          i # j /\ Wins[i] = 1 /\ players[i].score = players[j].score

\* C3: a game that ends through the endgame with at least two active seats
\* credits the endgame leader with the win.
C3_LeaderWins ==
    (GameReturned /\ endgame_started
        /\ Cardinality(ActivePlayers(disqualified)) >= 2)
    => Wins[leader_index] = 1

\* C4: when the runner has returned its aggregates, every seat it reports
\* disqualified has games_won = 0 and net_money = 0.
C4_DisqualifiedHaveNothing ==
    (sim_result.returned /\ sim_result.ok) =>
        \A i \in DOMAIN permanently_disqualified :
            permanently_disqualified[i] =>
                total_stats[i].wins = 0 /\ total_stats[i].money = 0

\* The component was invoked and the memory limit was breached during the
\* call: the limiter denied a grow request, or the call failed with an error
\* classified as resource exhaustion.
BreachedCall == last_call.called /\ (last_call.denied \/ last_call.classified)

\* C5: a should_roll call during which the memory limit is breached returns
\* Hold with memory_limit_hit latched, never Roll and never an error, and the
\* tournament does not end failed because of it.
C5_BreachIsAbsorbed ==
    BreachedCall =>
        /\ last_call.res = "hold"
        /\ last_call.hit
        /\ db.status # "failed"

\* C6: after a should_roll fault that is not classified as a memory breach
\* the runner has returned the error, no further game is played and the
\* status published for the tournament is failed with the error text, never
\* completed.
C6_FaultFailsTournament ==
    (last_call.res = "err") =>
        /\ sim_result = [ok |-> FALSE, returned |-> TRUE,
                         error |-> "Failed to call should_roll function"]
        /\ pc \in {"publish", "signal", "done"}
        /\ db.status # "completed"
        /\ pc \in {"signal", "done"} =>
              /\ db.status = "failed"
              /\ db.error_message = sim_result.error

\* The fault happened in a game that was not the last, and the worker has
\* signalled completion.
C6_Witness == last_call.res = "err" /\ pc = "done" /\ game_num + 1 < num_games

\* A worker is executing from the moment it is spawned until it sends the
\* completion signal.
Executing(id) == worker[id].pc \in {"spawned", "running", "ran", "returned"}

\* C7: at most one tournament worker is executing at any time.
C7_OneWorker == Cardinality({ id \in SimIds : Executing(id) }) <= 1

\* A tournament was queued while the signal of a finished worker had not been
\* polled yet, and it stays in the queue.
C7_Witness ==
    /\ is_running
    /\ \E c \in completion_rx : chan[c] = "sent"
    /\ queue # << >>
    /\ \A id \in SimIds : ~Executing(id)

\* C8: workers are started in the order in which the tournaments were passed
\* to queue_simulation (tournaments are numbered in that order).
C8_Fifo == \A i \in DOMAIN start_log : start_log[i] = i

\* Two tournaments waited in the queue together and both have been started.
C8_Witness == Len(start_log) >= 3 /\ Len(queue) = 0

\* C9: with the poll invoked again and again and every worker signalling
\* completion, every queued tournament is eventually started; and a poll that
\* finds the completion signal clears is_running and starts the next queued
\* tournament in the same poll.
C9_EveryQueuedStarts ==
    /\ \A id \in SimIds : (worker[id].pc = "queued") ~> (worker[id].pc # "queued")
    /\ [][ (CheckAndStartNext
            /\ \E id \in SimIds : worker[id].pc = "signalled"
                                  /\ chan[id] # "received")
           => IF queue # << >>
              THEN is_running' /\ start_log' = Append(start_log, Head(queue))
                   /\ queue' = Tail(queue)
              ELSE ~is_running' /\ completion_rx' = None ]_vars

\* A tournament that had to wait in the queue is running, started by the poll
\* that received the signal of the worker before it.
C9_Witness ==
    /\ Len(start_log) >= 2
    /\ chan[start_log[1]] = "received"
    /\ worker[start_log[2]].pc = "running"

\* C10: when the worker has signalled completion the status of the
\* tournament is completed, with the participants' results written, if the
\* runner returned aggregates, and failed with an error message if it
\* returned an error.
C10_TerminalStatus ==
    pc = "done" =>
        IF sim_result.ok
        THEN /\ db.status = "completed"
             /\ \A i \in DOMAIN total_stats :
                   /\ db.participants[i].games_won = total_stats[i].wins
                   /\ db.participants[i].total_money = total_stats[i].money
        ELSE db.status = "failed" /\ db.error_message # ""

\* The dice have just been rolled; their sum.
Rolled == last_roll # NoRoll
RolledSum == last_roll[1] + last_roll[2]

\* C11: a roll of (1,1), at any point of a turn, ends the turn at once with
\* score, banked_score and doubles_count all 0: simulate_turn has returned
\* score 0 without consulting the strategy.
C11_SnakeEyesBust ==
    last_roll = <<1, 1>> =>
        /\ pc = "turn_done"
        /\ players[CurrentPlayer] = [score |-> 0, banked_score |-> 0]
        /\ doubles_count = 0
        /\ turn_ret = [score |-> 0, memory_exceeded |-> FALSE]
        /\ last_call = NoCall

\* Snake eyes were rolled by a seat that began its turn above the threshold.
C11_Witness == last_roll = <<1, 1>> /\ turn_start_score > Threshold

\* C12: a roll whose dice sum to 7 ends the turn with the score set back to
\* turn_start_score, doubles_count 0 and banked_score as it was.
C12_SevenOut ==
    [][ (Roll /\ last_roll'[1] + last_roll'[2] = 7) =>
           /\ pc' = "turn_done"
           /\ players'[CurrentPlayer].score = turn_start_score
           /\ turn_start_score' = turn_start_score
           /\ doubles_count' = 0
           /\ players'[CurrentPlayer].banked_score
                 = players[CurrentPlayer].banked_score ]_vars

\* A seven ended the turn of a seat that had begun it with points.
C12_Witness ==
    Rolled /\ RolledSum = 7 /\ turn_start_score > 0
    /\ players[CurrentPlayer].score = turn_start_score

C14_ExactlyThreshold ==
    /\ [][ (Roll /\ last_roll' # <<1, 1>> /\ last_roll'[1] + last_roll'[2] # 7
                 /\ ~(last_roll'[1] = last_roll'[2] /\ doubles_count = 2)
                 /\ players[CurrentPlayer].score + last_roll'[1] + last_roll'[2]
                       = Threshold)
           => /\ pc' = "turn_done"
              /\ players'[CurrentPlayer] = [score |-> 0, banked_score |-> 0] ]_vars
    /\ [][ (TurnDone /\ Rolled /\ players[CurrentPlayer].score = 0)
           => UNCHANGED <<endgame_started, leader_score, leader_index>> ]_vars

\* Dice that are no double and no seven have taken the score to 0: they
\* brought it to exactly the threshold.
C14_Witness ==
    /\ Rolled /\ last_roll[1] # last_roll[2] /\ RolledSum # 7
    /\ pc = "turn_done"
    /\ players[CurrentPlayer].score = 0
    /\ ~endgame_started

\* C15: at every turn boundary of a game whose endgame has not begun every
\* seat's score is at most the threshold, and a turn that ends above the
\* threshold starts the endgame in the same step with its seat as leader.
C15_ScoreBound ==
    /\ [](pc = "loop" /\ ~endgame_started
            => \A i \in DOMAIN players : players[i].score <= Threshold)
    /\ [][ (TurnDone /\ ~endgame_started
                /\ players[CurrentPlayer].score > Threshold)
           => /\ endgame_started'
              /\ leader_index' = CurrentPlayer
              /\ leader_score' = players[CurrentPlayer].score ]_vars

\* The endgame has just been started by the seat that crossed the threshold.
C15_Witness ==
    /\ pc = "loop" /\ endgame_started
    /\ leader_score > Threshold
    /\ players[leader_index].score = leader_score
    /\ \A i \in DOMAIN players : i # leader_index => ~players_had_final_turn[i]

\* The turn that has just returned did not end with a memory breach
\* (game.rs:352): the endgame bookkeeping follows.
TurnCounts ==
    ~(turn_ret.memory_exceeded
        \/ is_memory_limit_exceeded(strategies[CurrentPlayer]))

\* The seats other than the leader that the game counts as active.
Responders == ActivePlayers(disqualified) \ {leader_index}

\* C16: once the endgame has begun the game does not end, unless at most one
\* active seat is left, before every active seat other than the leader has
\* completed a turn since the leader was set; a turn that ends above
\* leader_score makes its seat the leader and restarts the round; the game
\* ends right after the last response turn, so it never goes on with no
\* response turn owed.
C16_ResponseRound ==
    /\ []((pc = "payout" /\ endgame_started
              /\ Cardinality(ActivePlayers(disqualified)) >= 2)
            => \A i \in Responders : players_had_final_turn[i])
    /\ [][ (TurnDone /\ endgame_started /\ TurnCounts) =>
             LET cp == CurrentPlayer IN
             IF players[cp].score > leader_score
             THEN /\ leader_index' = cp
                  /\ leader_score' = players[cp].score
                  /\ players_had_final_turn'
                        = [i \in DOMAIN players |-> i = cp]
             ELSE (\A i \in Responders \ {cp} : players_had_final_turn[i])
                     => pc' = "payout" ]_vars
    /\ []((pc = "loop" /\ endgame_started
              /\ Cardinality(ActivePlayers(disqualified)) >= 2)
            => \E i \in Responders : ~players_had_final_turn[i])

\* C17: in a returned game with winner w every other seat that is not
\* disqualified has lost the difference between the winner's final score and
\* its own, or twice the winner's score when its own is 0, and the winner's
\* money is the sum of what they lost.
C17_Payments ==
    GameReturned =>
        \A w \in DOMAIN Wins :
            Wins[w] = 1 =>
                LET losers == { j \in DOMAIN Wins :
                                  j # w /\ ~game_ret.disqualified[j] }
                    lost == [j \in DOMAIN Wins |->
                               IF players[j].score > 0
                               THEN players[w].score - players[j].score
                               ELSE 2 * players[w].score]
                IN  /\ \A j \in losers : Money[j] = 0 - lost[j]
                    /\ Money[w] = SumOver(losers, lost)

\* A game has returned in which a seat without points paid the winner twice
\* the winner's score.
C17_Witness ==
    /\ GameReturned
    /\ \E w, j \in DOMAIN Wins :
          /\ Wins[w] = 1 /\ j # w /\ ~game_ret.disqualified[j]
          /\ players[j].score = 0
          /\ Money[w] > 0

\* C18: a seat that breached the memory limit in an earlier game takes no
\* turn in a later one: it never is the seat rolling or deciding, its store
\* is never touched, and the endgame is over as soon as every other seat
\* still in the game has had its final turn.
C18_NoTurnForBreached ==
    /\ [](pc \in {"roll", "decide", "turn_done"}
            => ~permanently_disqualified[CurrentPlayer])
    /\ [][ \A i \in DOMAIN permanently_disqualified :
              permanently_disqualified[i] => strategies'[i] = strategies[i] ]_vars
    /\ [][ (TurnDone /\ TurnCounts /\ endgame_started'
               /\ \A i \in DOMAIN players :
                     (~permanently_disqualified[i] /\ ~disqualified[i])
                        => players_had_final_turn'[i])
           => pc' = "payout" ]_vars

\* C19: a game is played only while at least two seats are not permanently
\* disqualified; when the runner has returned its aggregates it has played
\* at most num_games games and stopped early only with at most one seat
\* left, and a tournament stopped that way is recorded as completed.
C19_EarlyStop ==
    /\ pc \in {"loop", "roll", "decide", "turn_done", "payout", "aggregate"}
          => ActiveCount >= 2
    /\ (sim_result.returned /\ sim_result.ok)
          => /\ game_num <= num_games
             /\ game_num < num_games => ActiveCount <= 1
    /\ (pc = "done" /\ sim_result.ok /\ ActiveCount <= 1)
          => db.status = "completed"

\* C20: in a tournament of one seat every game is played and the seat is
\* credited with the win of each.
C20_SingleSeat ==
    (num_players = 1 /\ sim_result.returned /\ sim_result.ok)
    => /\ game_num = num_games
       /\ total_stats[0].wins = num_games

\* C21: after every memory-grow request the limiter denies, for the
\* instance's memory_limit or for the engine's maximum, memory_limit_hit is
\* true, and a request it grants leaves memory_limit_hit as it was.
C21_DenialLatches ==
    last_grow.requested
    => IF last_grow.ok
       THEN strategies[last_grow.seat].memory_limit_hit = last_grow.hit_before
       ELSE strategies[last_grow.seat].memory_limit_hit

\* C22: the peak of an instance never decreases, whatever is asked for and
\* whatever the answer, and is never below the current size; the runner's
\* per-seat peak is the maximum of what it was and the peak read after the
\* game, and never decreases.
C22_PeakMonotone ==
    /\ [](\A i \in DOMAIN strategies :
            strategies[i].peak_memory_bytes >= strategies[i].current_memory_bytes)
    /\ [][ \A i \in DOMAIN strategies :
              strategies'[i].peak_memory_bytes >= strategies[i].peak_memory_bytes ]_vars
    /\ [][ \A i \in DOMAIN total_usage_stats :
              /\ total_usage_stats'[i] >= total_usage_stats[i]
              /\ game_num' = game_num + 1
                    => total_usage_stats'[i] =
                          Max(total_usage_stats[i], strategies[i].peak_memory_bytes) ]_vars

\* A request below the instance's peak has been answered after a game at
\* whose end that peak was folded into the seat's maximum.
C22_Witness ==
    /\ last_grow.requested
    /\ last_grow.desired < strategies[last_grow.seat].peak_memory_bytes
    /\ game_num >= 1
    /\ total_usage_stats[last_grow.seat] = strategies[last_grow.seat].peak_memory_bytes

\* C23: every instance is limited to floor(200 MiB / n) from the moment it
\* exists, and the limits of the instances alive never add up to more than
\* 200 MiB, also while the instances are being created.
C23_LimitFromInstantiation ==
    /\ \A i \in DOMAIN strategies :
          strategies[i].memory_limit = Some(MemoryLimitPerBot(num_players))
    /\ LiveLimits <= MemoryLimitMb * 1024 * 1024

\* C24: a games_completed update that fails changes nothing else: the
\* aggregates of the game are taken as they are when it succeeds, the runner
\* goes on with its loop, no other column changes, and the tournament ends
\* completed.
C24_ProgressFailureIsHarmless ==
    /\ [][ (Aggregate /\ progress_err' /\ ~progress_err)
           => /\ total_stats' = AddStats(total_stats, game_ret.results)
              /\ total_usage_stats' = MaxUsage(total_usage_stats, game_ret.usage_stats)
              /\ \A i \in DOMAIN permanently_disqualified :
                    permanently_disqualified'[i] =
                       (permanently_disqualified[i] \/ game_ret.disqualified[i])
              /\ game_num' = game_num + 1
              /\ pc' = "next_game"
              /\ sim_result' = sim_result
              /\ db' = db ]_vars
    /\ []((pc = "done" /\ progress_err /\ sim_result.ok) => db.status = "completed")

\* C25: however the upload requests interleave, the registry holds at most
\* one record per content hash, the successful uploads of the same bytes all
\* return the id the first of them returned, and successful uploads of
\* different bytes return different ids.
C25_ContentHashDedupe ==
    /\ \A b1, b2 \in bots : b1.wasm_hash = b2.wasm_hash => b1 = b2
    /\ \A i, j \in DOMAIN responses :
          (responses[i].wasm = responses[j].wasm) <=> (responses[i].id = responses[j].id)

\* Two uploads of the same bytes both found no bot with their hash and drew
\* different ids; one has been answered with its id and the other refused,
\* and a third upload of other bytes has been answered.
C25_Witness ==
    \E r1, r2, r3 \in UploadIds :
        /\ uploads[r1].wasm = uploads[r2].wasm
        /\ uploads[r1].pc = "ok" /\ uploads[r2].pc = "server_error"
        /\ uploads[r2].bot_id \in files /\ uploads[r2].bot_id # uploads[r1].bot_id
        /\ uploads[r3].pc = "ok" /\ uploads[r3].wasm # uploads[r1].wasm
        /\ Len(responses) = 2

\* C26: whenever should_roll returns Hold, also a Hold forced by an absorbed
\* memory breach, the turn ends there: simulate_turn returns without another
\* roll and with banked_score equal to score.
C26_HoldBanks ==
    last_call.res = "hold"
    => /\ pc = "turn_done"
       /\ players[CurrentPlayer].banked_score = players[CurrentPlayer].score

\* C27: in a turn the strategy is consulted once before every roll, except
\* before the first roll and before a roll that follows a first or second
\* consecutive double other than snake eyes, which are made without
\* consulting it; the strategy is therefore consulted, and can hold, only
\* directly after a roll that was no double.
C27_ConsultedBeforeRolls ==
    \* the first roll follows the start of the turn directly
    /\ [][ (pc = "loop" /\ pc' \notin {"loop", "payout"})
           => (pc' = "roll" /\ must_roll' /\ last_call' = NoCall) ]_vars
    \* a consultation comes directly after a roll that was no double
    /\ [](pc = "decide" => (Rolled /\ last_roll[1] # last_roll[2]))
    \* a roll that did not end the turn is followed by a forced roll when
    \* it was a double, the first or second in a row, and by a consultation
    \* otherwise
    /\ []((Rolled /\ pc # "turn_done")
            => IF last_roll[1] = last_roll[2]
               THEN /\ pc = "roll" /\ must_roll
                    /\ last_roll # <<1, 1>> /\ doubles_count \in {1, 2}
               ELSE pc = "decide" /\ ~must_roll)
    \* one consultation, answered with Roll, stands between such a roll and
    \* the next
    /\ [][ pc = "decide"
           => (pc' # "decide" /\ (pc' = "roll" => last_call'.res = "roll")) ]_vars
    /\ []((pc = "roll" /\ ~Rolled /\ last_call # NoCall) => last_call.res = "roll")
    \* a Hold comes out of a consultation only
    /\ [][ last_call'.res = "hold"
           => (pc = "decide" /\ Rolled /\ last_roll[1] # last_roll[2]) ]_vars

\* The second double in a row, no snake eyes, has been rolled and the next
\* roll is due without a consultation.
C27_Witness ==
    /\ pc = "roll" /\ Rolled
    /\ last_roll[1] = last_roll[2]
    /\ doubles_count = 2

\* C28: within a game the turn history only grows: it is empty when the
\* game starts, every roll of the dice, also one that busts, resets or ends
\* the game, appends one entry with the seat of the roller and the two dice,
\* no other step changes it, and the GameState passed to a strategy carries
\* the whole history up to that decision.
C28_HistoryAppendOnly ==
    /\ [][ (pc = "next_game" /\ pc' = "loop") => (turn_history' = << >>) ]_vars
    /\ [][ (pc = "roll")
           => (turn_history' = Append(turn_history, <<CurrentPlayer, last_roll'>>)) ]_vars
    /\ [][ (pc \in {"loop", "decide", "turn_done", "payout"})
           => (turn_history' = turn_history) ]_vars
    /\ [](last_call.called => last_call.state.turn_history = turn_history)

\* A strategy is consulted with a history of two rolls, the first of them
\* the snake eyes of the other seat.
C28_Witness ==
    /\ last_call.called
    /\ Len(turn_history) = 2
    /\ turn_history[1][2] = <<1, 1>>
    /\ turn_history[1][1] # turn_history[2][1]
    /\ last_call.state.current_player_index = turn_history[2][1]

\* C29: once a seat is permanently disqualified, its games_won and its
\* net_money in the runner's aggregates do not change in the games that
\* follow, whatever happens to the other seats in them.
C29_DisqualifiedAggregatesFrozen ==
    [][ \A i \in DOMAIN permanently_disqualified :
           permanently_disqualified[i] => (total_stats'[i] = total_stats[i]) ]_vars

\* C30: once the endgame has a leader, the leader takes no turn while it is
\* the leader, also when another seat is disqualified during the endgame,
\* and when the game is over the leader's score is leader_score.
C30_LeaderWaits ==
    /\ (endgame_started /\ pc \in {"roll", "decide", "turn_done"})
          => CurrentPlayer # leader_index
    /\ (endgame_started /\ pc \in {"payout", "aggregate"})
          => players[leader_index].score = leader_score

\* C31: after every operation of the manager, is_running false implies an
\* empty queue, and the completion receiver is held exactly when is_running
\* is true.
C31_QueueNeverIdle ==
    /\ ~is_running => queue = << >>
    /\ (completion_rx # None) <=> is_running

\* A poll has received the completion of one tournament and started the
\* next while a third waits in the queue.
C31_Witness ==
    /\ Len(start_log) >= 2
    /\ \E c \in SimIds : chan[c] = "received"
    /\ is_running
    /\ Len(queue) >= 1

\* C32: at every turn boundary of a game, every seat not disqualified in
\* that game has banked_score equal to score, whichever way its turns ended.
C32_BankedAtBoundary ==
    pc \in {"loop", "payout", "aggregate"}
    => \A i \in DOMAIN players :
          ~disqualified[i] => players[i].banked_score = players[i].score

\* A turn boundary at which one seat has ended a turn above the threshold
\* and the other holds points it banked below it.
C32_Witness ==
    /\ pc = "loop"
    /\ \E i, j \in DOMAIN players :
          /\ ~disqualified[i] /\ ~disqualified[j]
          /\ players[i].score > Threshold
          /\ players[j].score > 0 /\ players[j].score < Threshold

\* C33: every GameState passed to should_roll has a total score below the
\* threshold, the seat index of the seat whose turn it is, that seat's
\* entry of all_players_banked_scores equal to current_banked_score, and a
\* turn history that is not empty and ends with a roll of that seat that is
\* neither a double nor a seven.
C33_GameStatePassed ==
    last_call.called
    => LET st == last_call.state
           h == st.turn_history
       IN  /\ st.current_total_score < Threshold
           /\ st.current_player_index = CurrentPlayer
           /\ st.current_player_index \in DOMAIN st.all_players_banked_scores
           /\ st.all_players_banked_scores[st.current_player_index]
                 = st.current_banked_score
           /\ h # << >>
           /\ h[Len(h)][1] = st.current_player_index
           /\ h[Len(h)][2][1] # h[Len(h)][2][2]
           /\ h[Len(h)][2][1] + h[Len(h)][2][2] # 7

\* A strategy is consulted for the second time in a turn: both rolls of the
\* history are its seat's and its total score is their sum.
C33_Witness ==
    /\ last_call.called
    /\ Len(last_call.state.turn_history) = 2
    /\ turn_history[1][1] = turn_history[2][1]
    /\ last_call.state.current_total_score =
          turn_history[1][2][1] + turn_history[1][2][2]
          + turn_history[2][2][1] + turn_history[2][2][2]

\* C34: when a tournament has run to its end without a fault and no
\* progress update has failed, the games_completed value last published is
\* the number of games played, also when the tournament stopped early with
\* at most one active seat left; the published values never decrease and
\* never exceed num_games.
C34_ProgressMatchesPlayed ==
    /\ []((pc = "done" /\ sim_result.ok /\ ~progress_err)
            => db.games_completed = game_num)
    /\ [][ db'.games_completed >= db.games_completed ]_vars
    /\ [](db.games_completed <= num_games)

=============================================================================
